---------------------------- MODULE Spec2Model ----------------------------
(***************************************************************************)
(* Model of Algorithm.Python/CustomDataObjectStoreRegressionAlgorithm.py:  *)
(* the algorithm's handlers (Initialize, OnData, OnEndOfAlgorithm), the    *)
(* custom data type (GetSource, Reader) and, around them, the object       *)
(* store, the streaming feed and the historical query that call into them. *)
(*                                                                         *)
(* Text is a sequence of one-character strings, so that split, strptime    *)
(* and float are computed character by character.  The alphabet of the     *)
(* inputs is the digits and  , . - : space x n a ; the float and timestamp *)
(* parsers are those of Python restricted to that alphabet (no exponent,   *)
(* no inf, no '+', no '_'; the text nan is a float).                       *)
(***************************************************************************)
EXTENDS Integers, Sequences, FiniteSets, TLC

(***************************************************************************)
(* Bounds of the model.                                                    *)
(***************************************************************************)
\* Largest number of rows of a stored dataset.
MaxRows == 3
\* Largest number of comma-separated fields of a line handed to Reader alone.
MaxFields == 7

(***************************************************************************)
(* Characters and text.                                                    *)
(***************************************************************************)
Digit == {"0", "1", "2", "3", "4", "5", "6", "7", "8", "9"}

DigitVal(c) ==
    CASE c = "0" -> 0 [] c = "1" -> 1 [] c = "2" -> 2 [] c = "3" -> 3
      [] c = "4" -> 4 [] c = "5" -> 5 [] c = "6" -> 6 [] c = "7" -> 7
      [] c = "8" -> 8 [] c = "9" -> 9

\* s[i], or "" past either end of s.
At(s, i) == IF i \in 1..Len(s) THEN s[i] ELSE ""

RECURSIVE SplitFrom(_, _, _, _)
SplitFrom(s, i, cur, acc) ==
    IF i > Len(s) THEN Append(acc, cur)
    ELSE IF s[i] = "," THEN SplitFrom(s, i + 1, <<>>, Append(acc, cur))
    ELSE SplitFrom(s, i + 1, Append(cur, s[i]), acc)

\* line.split(','): always at least one field; "a,b," has a last empty field.
Split(line) == SplitFrom(line, 1, <<>>, <<>>)

\* Number of consecutive digits of s from position i on.
RECURSIVE DigitRun(_, _)
DigitRun(s, i) ==
    IF At(s, i) \in Digit THEN 1 + DigitRun(s, i + 1) ELSE 0

\* Number of consecutive spaces of s from position i on.
RECURSIVE SpaceRun(_, _)
SpaceRun(s, i) ==
    IF At(s, i) = " " THEN 1 + SpaceRun(s, i + 1) ELSE 0

\* The value of the n digits of s from position i on.
RECURSIVE NumVal(_, _, _)
NumVal(s, i, n) ==
    IF n = 0 THEN 0 ELSE NumVal(s, i, n - 1) * 10 + DigitVal(s[i + n - 1])

(***************************************************************************)
(* datetime: a moment is a proleptic Gregorian ordinal day (day 1 is       *)
(* 0001-01-01) and a second of that day.                                   *)
(***************************************************************************)
SecondsPerHour == 3600
SecondsPerDay == 86400
\* datetime.max.toordinal(): 9999-12-31.
MaxOrdinal == 3652059

IsLeap(y) == (y % 4 = 0) /\ ((y % 100 # 0) \/ (y % 400 = 0))

DaysInMonth(y, m) ==
    IF m = 2 THEN (IF IsLeap(y) THEN 29 ELSE 28)
    ELSE IF m \in {4, 6, 9, 11} THEN 30
    ELSE 31

RECURSIVE DaysBeforeMonth(_, _)
DaysBeforeMonth(y, m) ==
    IF m = 1 THEN 0 ELSE DaysBeforeMonth(y, m - 1) + DaysInMonth(y, m - 1)

DaysBeforeYear(y) ==
    (y - 1) * 365 + ((y - 1) \div 4) - ((y - 1) \div 100) + ((y - 1) \div 400)

ToOrdinal(y, m, d) == DaysBeforeYear(y) + DaysBeforeMonth(y, m) + d

DateTime(y, m, d, hh, mm, ss) ==
    [day |-> ToOrdinal(y, m, d), sec |-> hh * SecondsPerHour + mm * 60 + ss]

TimeLe(a, b) == (a.day < b.day) \/ (a.day = b.day /\ a.sec <= b.sec)
TimeLt(a, b) == (a.day < b.day) \/ (a.day = b.day /\ a.sec < b.sec)

ValueError == [ok |-> FALSE, err |-> "ValueError"]
IndexError == [ok |-> FALSE, err |-> "IndexError"]
OverflowError == [ok |-> FALSE, err |-> "OverflowError"]

\* t + timedelta(hours=h); past datetime.max it raises OverflowError.
AddHours(t, h) ==
    LET total == t.sec + h * SecondsPerHour
        day == t.day + (total \div SecondsPerDay)
    IN  IF day > MaxOrdinal THEN OverflowError
        ELSE [ok |-> TRUE, time |-> [day |-> day, sec |-> total % SecondsPerDay]]

(***************************************************************************)
(* datetime.strptime(s, '%Y-%m-%d %H:%M:%S').  Each directive is the       *)
(* regular expression of _strptime: %Y four digits, %m 1..12, %d 1..31     *)
(* (or a space and a digit 1..9), %H 0..23, %M 0..59, %S 0..61, one or two *)
(* digits each; the blank of the format is one or more blanks; nothing may *)
(* follow the seconds.  The constructor then refuses year 0, a day the     *)
(* month does not have and a second over 59.                               *)
(***************************************************************************)
\* A field of one or two digits at i, within lo..hi: its length, else 0.
NumLen(s, i, lo, hi) ==
    LET n == DigitRun(s, i)
    IN  IF n \in {1, 2} /\ NumVal(s, i, n) \in lo..hi THEN n ELSE 0

\* %d at i: its length (0: no match).
DayLen(s, i) ==
    IF At(s, i) = " "
    THEN (IF At(s, i + 1) \in (Digit \ {"0"}) /\ At(s, i + 2) \notin Digit
          THEN 2 ELSE 0)
    ELSE NumLen(s, i, 1, 31)

DayVal(s, i, n) ==
    IF At(s, i) = " " THEN DigitVal(s[i + 1]) ELSE NumVal(s, i, n)

\* %S and the end of the text, then the constructor's checks.
StrpSecond(s, year, month, dom, hour, minute, s0, sn) ==
    IF sn = 0 \/ s0 + sn - 1 # Len(s) THEN ValueError
    ELSE IF year = 0 \/ dom > DaysInMonth(year, month) THEN ValueError
    ELSE [ok |-> TRUE,
          time |-> DateTime(year, month, dom, hour, minute, NumVal(s, s0, sn))]

\* %M and the ':' after it.
StrpMinute(s, year, month, dom, hour, m0, nn) ==
    IF nn = 0 \/ At(s, m0 + nn) # ":" THEN ValueError
    ELSE StrpSecond(s, year, month, dom, hour, NumVal(s, m0, nn),
                    m0 + nn + 1, NumLen(s, m0 + nn + 1, 0, 59))

\* %H and the ':' after it.
StrpHour(s, year, month, dom, h0, hn) ==
    IF hn = 0 \/ At(s, h0 + hn) # ":" THEN ValueError
    ELSE StrpMinute(s, year, month, dom, NumVal(s, h0, hn),
                    h0 + hn + 1, NumLen(s, h0 + hn + 1, 0, 59))

\* %d and the blanks after it.
StrpDay(s, year, month, d0, dn, bn) ==
    IF dn = 0 \/ bn = 0 THEN ValueError
    ELSE StrpHour(s, year, month, DayVal(s, d0, dn),
                  d0 + dn + bn, NumLen(s, d0 + dn + bn, 0, 23))

\* %m and the '-' after it.
StrpMonth(s, year, mn) ==
    IF mn = 0 \/ At(s, 6 + mn) # "-" THEN ValueError
    ELSE StrpDay(s, year, NumVal(s, 6, mn), 6 + mn + 1, DayLen(s, 6 + mn + 1),
                 SpaceRun(s, 6 + mn + 1 + DayLen(s, 6 + mn + 1)))

strptime(s) ==
    IF ~(DigitRun(s, 1) >= 4 /\ At(s, 5) = "-") THEN ValueError
    ELSE StrpMonth(s, NumVal(s, 1, 4), NumLen(s, 6, 1, 12))

(***************************************************************************)
(* float(s) on decimal literals: blanks around it are stripped, then an    *)
(* optional '-', digits, an optional '.' and digits, with a digit          *)
(* somewhere.  The value is the exact decimal m / 10^e with no trailing    *)
(* zero in m (e > 0), so two values are the same number exactly when the   *)
(* records are equal; -0.0 is 0.0, as it is for Python's == and !=.        *)
(* float also takes the text nan, with or without the '-': the value is    *)
(* not a number, which Python's != finds different from every value,       *)
(* itself included.                                                        *)
(***************************************************************************)
NaN == [m |-> 0, e |-> 0 - 1]

\* Python's != on two floats.
FloatNe(a, b) == a = NaN \/ b = NaN \/ a # b

\* s from i to last is the text nan.
IsNaNText(s, i, last) ==
    /\ last = i + 2
    /\ At(s, i) = "n" /\ At(s, i + 1) = "a" /\ At(s, i + 2) = "n"

RECURSIVE Normal(_, _)
Normal(m, e) ==
    IF m = 0 THEN [m |-> 0, e |-> 0]
    ELSE IF e > 0 /\ m % 10 = 0 THEN Normal(m \div 10, e - 1)
    ELSE [m |-> m, e |-> e]

\* Number of blanks that end s.
RECURSIVE TrailingSpaces(_, _)
TrailingSpaces(s, i) ==
    IF At(s, i) = " " THEN 1 + TrailingSpaces(s, i - 1) ELSE 0

\* The digits read (ni before the '.', nf after it) must end at `last`.
FloatValue(s, last, neg, i0, ni, f0, nf) ==
    IF ni + nf = 0 \/ (IF nf = 0 /\ At(s, i0 + ni) # "." THEN i0 + ni - 1
                       ELSE f0 + nf - 1) # last
    THEN ValueError
    ELSE [ok |-> TRUE,
          value |-> Normal((IF neg THEN 0 - 1 ELSE 1) *
                           (NumVal(s, i0, ni) * (10 ^ nf) + NumVal(s, f0, nf)),
                           nf)]

\* The digits from i0 on, and those after a '.' if one follows them.
FloatDigits(s, last, neg, i0, ni) ==
    FloatValue(s, last, neg, i0, ni, i0 + ni + 1,
               IF At(s, i0 + ni) = "." THEN DigitRun(s, i0 + ni + 1) ELSE 0)

\* s between its blanks: from b to last.
FloatBody(s, b, last) ==
    IF b > last THEN ValueError
    ELSE IF IsNaNText(s, IF At(s, b) = "-" THEN b + 1 ELSE b, last)
    THEN [ok |-> TRUE, value |-> NaN]
    ELSE FloatDigits(s, last, At(s, b) = "-",
                     IF At(s, b) = "-" THEN b + 1 ELSE b,
                     DigitRun(s, IF At(s, b) = "-" THEN b + 1 ELSE b))

float(s) == FloatBody(s, 1 + SpaceRun(s, 1), Len(s) - TrailingSpaces(s, Len(s)))

(***************************************************************************)
(* ExampleCustomData.Reader (lines 81-91).  The statements run in the      *)
(* order of the source, and the first one that raises decides the error:   *)
(* strptime(data[0]) and the shift, data[4] and its float, then the floats *)
(* of data[1], data[2], data[3].  Fields 5 and 6 are never read.           *)
(***************************************************************************)
\* timedelta(hours=20) of line 85.
ShiftHours == 20

\* ReaderPoint with "Close" taken from data[3], the low.
ReaderPointCloseFromLow(config, time, value, open, high, low) ==
    IF ~value.ok THEN value
    ELSE IF ~open.ok THEN open
    ELSE IF ~high.ok THEN high
    ELSE IF ~low.ok THEN low
    ELSE [ok |-> TRUE,
          point |-> [Symbol |-> config.Symbol, Time |-> time,
                     Value |-> value.value, Open |-> open.value,
                     High |-> high.value, Low |-> low.value,
                     Close |-> low.value]]

\* ReaderPoint with an open that does not parse taken as 0.
ReaderPointDefaultsOpen(config, time, value, open, high, low) ==
    IF ~value.ok THEN value
    ELSE IF ~high.ok THEN high
    ELSE IF ~low.ok THEN low
    ELSE [ok |-> TRUE,
          point |-> [Symbol |-> config.Symbol, Time |-> time,
                     Value |-> value.value,
                     Open |-> IF open.ok THEN open.value ELSE [m |-> 0, e |-> 0],
                     High |-> high.value, Low |-> low.value,
                     Close |-> value.value]]

\* Lines 83-91 once every field has been read.
ReaderPoint(config, time, value, open, high, low) ==
    IF ~value.ok THEN value
    ELSE IF ~open.ok THEN open
    ELSE IF ~high.ok THEN high
    ELSE IF ~low.ok THEN low
    ELSE [ok |-> TRUE,
          point |-> [Symbol |-> config.Symbol,
                     Time |-> time,
                     Value |-> value.value,
                     Open |-> open.value,
                     High |-> high.value,
                     Low |-> low.value,
                     Close |-> value.value]]

\* ReaderFields with the value and the close read one field early, data[3].
ReaderFieldsOffByOne(config, data, shifted) ==
    IF ~shifted.ok THEN shifted
    ELSE IF Len(data) < 4 THEN IndexError
    ELSE ReaderPoint(config, shifted.time, float(data[4]), float(data[2]),
                     float(data[3]), float(data[4]))

\* Lines 86-90: data[4] first, then data[1], data[2], data[3].
ReaderFields(config, data, shifted) ==
    IF ~shifted.ok THEN shifted
    ELSE IF Len(data) < 5 THEN IndexError
    ELSE ReaderPoint(config, shifted.time, float(data[5]), float(data[2]),
                     float(data[3]), float(data[4]))

\* ReaderTime without the timedelta: the time is that of data[0].
ReaderTimeUnshifted(config, data, t) ==
    IF ~t.ok THEN t
    ELSE ReaderFields(config, data, t)

\* Line 85: strptime(data[0]) + timedelta(hours=20).
ReaderTime(config, data, t) ==
    IF ~t.ok THEN t
    ELSE ReaderFields(config, data, AddHours(t.time, ShiftHours))

ReaderSplit(config, data) == ReaderTime(config, data, strptime(data[1]))

\* Reader with the 20 hours added only when the request is not live.
ReaderLiveUnshifted(config, line, date, isLive) ==
    IF isLive THEN ReaderFields(config, Split(line), strptime(Split(line)[1]))
    ELSE ReaderSplit(config, Split(line))

Reader(config, line, date, isLive) == ReaderSplit(config, Split(line))

(***************************************************************************)
(* Field texts the inputs are built from.                                  *)
(***************************************************************************)
\* "2017-08-18 01:00:00"
TsRow1 ==
    <<"2", "0", "1", "7", "-", "0", "8", "-", "1", "8", " ", "0", "1", ":", "0", "0", ":", "0", "0">>
\* "2017-08-18 02:00:00"
TsRow2 ==
    <<"2", "0", "1", "7", "-", "0", "8", "-", "1", "8", " ", "0", "2", ":", "0", "0", ":", "0", "0">>
\* "2017-08-18 03:00:00"
TsRow3 ==
    <<"2", "0", "1", "7", "-", "0", "8", "-", "1", "8", " ", "0", "3", ":", "0", "0", ":", "0", "0">>
\* "2017-08-17 03:00:00"
TsEarly ==
    <<"2", "0", "1", "7", "-", "0", "8", "-", "1", "7", " ", "0", "3", ":", "0", "0", ":", "0", "0">>
\* "2017-08-21 04:00:00"
TsLate ==
    <<"2", "0", "1", "7", "-", "0", "8", "-", "2", "1", " ", "0", "4", ":", "0", "0", ":", "0", "0">>
\* "2017-8-18 1:0:0"
TsLoose ==
    <<"2", "0", "1", "7", "-", "8", "-", "1", "8", " ", "1", ":", "0", ":", "0">>
\* "2017-13-18 01:00:00"
TsBadMonth ==
    <<"2", "0", "1", "7", "-", "1", "3", "-", "1", "8", " ", "0", "1", ":", "0", "0", ":", "0", "0">>
\* "2017-02-30 01:00:00"
TsBadDay ==
    <<"2", "0", "1", "7", "-", "0", "2", "-", "3", "0", " ", "0", "1", ":", "0", "0", ":", "0", "0">>
\* "2017-08-18"
TsNoTime ==
    <<"2", "0", "1", "7", "-", "0", "8", "-", "1", "8">>
\* "9999-12-31 05:00:00"
TsLast ==
    <<"9", "9", "9", "9", "-", "1", "2", "-", "3", "1", " ", "0", "5", ":", "0", "0", ":", "0", "0">>
\* "5749.5"
N5749_5 ==
    <<"5", "7", "4", "9", ".", "5">>
\* "5852.95"
N5852_95 ==
    <<"5", "8", "5", "2", ".", "9", "5">>
\* "5842.2"
N5842_2 ==
    <<"5", "8", "4", "2", ".", "2">>
\* "5834.1"
N5834_1 ==
    <<"5", "8", "3", "4", ".", "1">>
\* "5904.35"
N5904_35 ==
    <<"5", "9", "0", "4", ".", "3", "5">>
\* "5822.2"
N5822_2 ==
    <<"5", "8", "2", "2", ".", "2">>
\* "5898.85"
N5898_85 ==
    <<"5", "8", "9", "8", ".", "8", "5">>
\* "214402430"
N214402430 ==
    <<"2", "1", "4", "4", "0", "2", "4", "3", "0">>
\* "8753.33"
N8753_33 ==
    <<"8", "7", "5", "3", ".", "3", "3">>
\* "144794030"
N144794030 ==
    <<"1", "4", "4", "7", "9", "4", "0", "3", "0">>
\* "5405.72"
N5405_72 ==
    <<"5", "4", "0", "5", ".", "7", "2">>
\* "0"
NZero ==
    <<"0">>
\* "0.00"
NZeroFrac ==
    <<"0", ".", "0", "0">>
\* "-0"
NNegZero ==
    <<"-", "0">>
\* "5x"
NBad ==
    <<"5", "x">>
\* "nan"
NNan ==
    <<"n", "a", "n">>
\* ""
NEmpty ==
    <<>>
\* " 7.50 "
NSpaced ==
    <<" ", "7", ".", "5", "0", " ">>
\* "1"
NOne ==
    <<"1">>
\* "2"
NTwo ==
    <<"2">>

RECURSIVE JoinFrom(_, _)
JoinFrom(fields, i) ==
    IF i > Len(fields) THEN <<>>
    ELSE IF i = Len(fields) THEN fields[i]
    ELSE fields[i] \o <<",">> \o JoinFrom(fields, i + 1)

\* The line whose comma-separated fields are `fields` (at least one).
Join(fields) == JoinFrom(fields, 1)


(***************************************************************************)
(* The algorithm's constants.                                              *)
(***************************************************************************)
\* SetStartDate(2017, 8, 18): midnight of that day.
StartDate == DateTime(2017, 8, 18, 0, 0, 0)
\* SetEndDate(2017, 8, 21): the last second of that day.
EndDate == DateTime(2017, 8, 21, 23, 59, 59)

GetCustomDataKey == "CustomData/ExampleCustomData"

\* AddData(ExampleCustomData, "ExampleCustomData", Resolution.Hour).Symbol
ExampleSymbol == "ExampleCustomData"

Zero == [m |-> 0, e |-> 0]

(***************************************************************************)
(* The lines a stored dataset is made of: the first two rows of the        *)
(* algorithm's CustomData, a row that shares the first row's timestamp,    *)
(* a row with a zero close, a row before StartDate, a row that the shift   *)
(* takes past EndDate, and a row that is cut short.                        *)
(***************************************************************************)
\* "2017-08-18 01:00:00,5749.5,5852.95,5749.5,5842.2,214402430,8753.33"
Row1 == Join(<<TsRow1, N5749_5, N5852_95, N5749_5, N5842_2, N214402430, N8753_33>>)
\* "2017-08-18 02:00:00,5834.1,5904.35,5822.2,5898.85,144794030,5405.72"
Row2 == Join(<<TsRow2, N5834_1, N5904_35, N5822_2, N5898_85, N144794030, N5405_72>>)
\* "2017-08-18 01:00:00,1,2,1,2": five fields, the timestamp of Row1
RowSame == Join(<<TsRow1, NOne, NTwo, NOne, NTwo>>)
\* "2017-08-18 02:00:00,1,2,0,0.00,1,2"
RowZero == Join(<<TsRow2, NOne, NTwo, NZero, NZeroFrac, NOne, NTwo>>)
\* "2017-08-17 03:00:00,1,2,1,2,1,2": 2017-08-17 23:00:00 once shifted
RowEarly == Join(<<TsEarly, NOne, NTwo, NOne, NTwo, NOne, NTwo>>)
\* "2017-08-21 04:00:00,1,2,1,2,1,2": 2017-08-22 00:00:00 once shifted
RowLate == Join(<<TsLate, NOne, NTwo, NOne, NTwo, NOne, NTwo>>)
\* "2017-08-18 03:00:00,1,2,1": four fields
RowShort == Join(<<TsRow3, NOne, NTwo, NOne>>)

Lines == {Row1, Row2, RowSame, RowZero, RowEarly, RowLate, RowShort}

\* The datasets: every sequence of at most MaxRows lines.
Datasets == UNION {[1..n -> Lines] : n \in 0..MaxRows}

\* The moments the clock ticks at: the start, the hours the rows become
\* due at (21:00 and 22:00 of the first day) and the end.
TickTimes ==
    {StartDate, DateTime(2017, 8, 18, 21, 0, 0),
     DateTime(2017, 8, 18, 22, 0, 0), EndDate}

\* The dates a source is asked for, and a line is read for.
RequestDates == {StartDate, EndDate}

(***************************************************************************)
(* State.                                                                  *)
(***************************************************************************)
VARIABLES
    pc,              \* "new", "running", "done" (OnEndOfAlgorithm has run), "failed"
    CustomData,      \* the rows of the class attribute CustomData (line 19)
    CustomDataKey,   \* ExampleCustomData.CustomDataKey (line 76)
    customSymbol,    \* self.customSymbol
    receivedData,    \* self.receivedData
    objectStore,     \* key -> <<>> (never written) or <<payload>>
    storeLog,        \* the store operations of the algorithm and its feed, in order
    sourceLog,       \* what GetSource returned, per kind of request
    feedState,       \* "Idle", "Subscribed", "Exhausted"
    feedError,       \* "" or the error the feed's load ended with
    buffer,          \* the feed's decoded points
    cursor,          \* the feed's position in buffer
    lastEmitted,     \* <<>> or <<timestamp of the last emitted point>>
    emitted,         \* the buffer positions the feed emitted, in order
    clock,           \* <<>> or <<time of the last tick>>
    customSecurity,  \* <<>> or <<what line 48 read>>
    history,         \* <<>> or <<rows the History call of line 53 returned>>
    error,           \* "" or the message of the exception that ended the run
    readerConfig,    \* the config (its Symbol) handed to Reader on its own
    readerLine,      \* a line handed to Reader on its own
    readerResult,    \* <<>> or <<what Reader returned for readerLine>>
    queries,         \* the historical queries made on their own, with their results
    readerLoad       \* <<>> or <<what the load of a dataset holding readerLine gave>>

vars == <<pc, CustomData, CustomDataKey, customSymbol, receivedData, objectStore,
          storeLog, sourceLog, feedState, feedError, buffer, cursor, lastEmitted,
          emitted, clock, customSecurity, history, error, readerConfig,
          readerLine, readerResult, queries, readerLoad>>

StoreKeys == {GetCustomDataKey, ""}

(***************************************************************************)
(* Object store: Save and read of a key.                                   *)
(***************************************************************************)
NotFound == [ok |-> FALSE, err |-> "NotFound"]

ObjectStoreSave(store, key, payload) == [store EXCEPT ![key] = <<payload>>]

ObjectStoreGet(store, key) ==
    IF store[key] = <<>> THEN NotFound
    ELSE [ok |-> TRUE, payload |-> store[key][1]]

(***************************************************************************)
(* ExampleCustomData.GetSource (lines 78-79).                              *)
(***************************************************************************)
\* GetSource with the class attribute's default key for live requests.
GetSourceByKind(self, config, date, isLive) ==
    [Source |-> IF isLive THEN "" ELSE self.CustomDataKey,
     TransportMedium |-> "ObjectStore",
     Format |-> "Csv"]

GetSource(self, config, date, isLive) ==
    [Source |-> self.CustomDataKey,
     TransportMedium |-> "ObjectStore",
     Format |-> "Csv"]

\* Every row of the payload through Reader; the first row that raises
\* aborts the load with its error.
RECURSIVE DecodeFrom(_, _, _, _, _, _)
DecodeFrom(config, lines, i, acc, date, isLive) ==
    IF i > Len(lines) THEN [ok |-> TRUE, points |-> acc]
    ELSE LET r == Reader(config, lines[i], date, isLive)
         IN  IF ~r.ok THEN r
             ELSE DecodeFrom(config, lines, i + 1, Append(acc, r.point), date, isLive)

DecodeAll(config, lines, date, isLive) ==
    DecodeFrom(config, lines, 1, <<>>, date, isLive)

\* Resolve the source, read its key and decode every row.
LoadSource(self, store, config, date, isLive) ==
    LET got == ObjectStoreGet(store, GetSource(self, config, date, isLive).Source)
    IN  IF ~got.ok THEN got ELSE DecodeAll(config, got.payload, date, isLive)

(***************************************************************************)
(* Streaming feed.  The buffer holds the decoded points in ascending order *)
(* of timestamp.  A tick at t advances the cursor over every buffered      *)
(* point that is due (timestamp <= t) and yields each of them.             *)
(***************************************************************************)
RECURSIVE FeedAdvance(_, _, _, _, _)
FeedAdvance(buf, cur, last, t, out) ==
    IF cur > Len(buf) \/ ~TimeLe(buf[cur].Time, t)
    THEN [cursor |-> cur, last |-> last, out |-> out]
    ELSE FeedAdvance(buf, cur + 1, <<buf[cur].Time>>, t, Append(out, cur))

\* FeedAdvance with a point due only once the clock is past its timestamp.
RECURSIVE FeedAdvancePastDue(_, _, _, _, _)
FeedAdvancePastDue(buf, cur, last, t, out) ==
    IF cur > Len(buf) \/ ~TimeLt(buf[cur].Time, t)
    THEN [cursor |-> cur, last |-> last, out |-> out]
    ELSE FeedAdvancePastDue(buf, cur + 1, <<buf[cur].Time>>, t, Append(out, cur))

FeedTickPastDue(st, buf, cur, last, t) ==
    IF st # "Subscribed"
    THEN [state |-> st, cursor |-> cur, last |-> last, out |-> <<>>]
    ELSE LET a == FeedAdvancePastDue(buf, cur, last, t, <<>>)
         IN  [state |-> IF a.cursor > Len(buf) THEN "Exhausted" ELSE "Subscribed",
              cursor |-> a.cursor, last |-> a.last, out |-> a.out]

\* FeedTick of a feed that stays Subscribed once its cursor is past the
\* last point.
FeedTickStaysSubscribed(st, buf, cur, last, t) ==
    IF st # "Subscribed"
    THEN [state |-> st, cursor |-> cur, last |-> last, out |-> <<>>]
    ELSE LET a == FeedAdvance(buf, cur, last, t, <<>>)
         IN  [state |-> "Subscribed",
              cursor |-> a.cursor, last |-> a.last, out |-> a.out]

\* The tick at t of a feed in state st: the new state, cursor and last
\* emitted timestamp, and the buffer positions it yields, in order.
FeedTick(st, buf, cur, last, t) ==
    IF st # "Subscribed"
    THEN [state |-> st, cursor |-> cur, last |-> last, out |-> <<>>]
    ELSE LET a == FeedAdvance(buf, cur, last, t, <<>>)
         IN  [state |-> IF a.cursor > Len(buf) THEN "Exhausted" ELSE "Subscribed",
              cursor |-> a.cursor, last |-> a.last, out |-> a.out]

(***************************************************************************)
(* OnData (lines 36-42).  A slice is the set of the points it carries, at  *)
(* most one per symbol.                                                    *)
(***************************************************************************)
ZeroPriceMessage == "Custom data price was not expected to be zero"

ContainsKey(slice, symbol) == \E p \in slice : p.Symbol = symbol

Get(slice, symbol) == CHOOSE p \in slice : p.Symbol = symbol

\* OnData with the point put first in the list instead of last.
OnDataPrepend(self, slice) ==
    IF ContainsKey(slice, self.customSymbol)
    THEN IF Get(slice, self.customSymbol).Value = Zero
         THEN [receivedData |-> self.receivedData, error |-> ZeroPriceMessage]
         ELSE [receivedData |-> <<Get(slice, self.customSymbol)>> \o self.receivedData,
               error |-> ""]
    ELSE [receivedData |-> self.receivedData, error |-> ""]

\* OnData with the list set to the point instead of the point appended.
OnDataKeepsLast(self, slice) ==
    IF ContainsKey(slice, self.customSymbol)
    THEN IF Get(slice, self.customSymbol).Value = Zero
         THEN [receivedData |-> self.receivedData, error |-> ZeroPriceMessage]
         ELSE [receivedData |-> <<Get(slice, self.customSymbol)>>, error |-> ""]
    ELSE [receivedData |-> self.receivedData, error |-> ""]

OnData(self, slice) ==
    IF ContainsKey(slice, self.customSymbol)
    THEN LET customData == Get(slice, self.customSymbol)
         IN  IF customData.Value = Zero
             THEN [receivedData |-> self.receivedData, error |-> ZeroPriceMessage]
             ELSE [receivedData |-> Append(self.receivedData, customData),
                   error |-> ""]
    ELSE [receivedData |-> self.receivedData, error |-> ""]

\* The points a tick yields reach OnData one slice each, in order; the run
\* stops at the first call that raises.
RECURSIVE Dispatch(_, _, _, _, _)
Dispatch(symbol, received, buf, out, i) ==
    IF i > Len(out) THEN [receivedData |-> received, error |-> ""]
    ELSE LET r == OnData([customSymbol |-> symbol, receivedData |-> received],
                         {buf[out[i]]})
         IN  IF r.error # "" THEN r
             ELSE Dispatch(symbol, r.receivedData, buf, out, i + 1)

(***************************************************************************)
(* Historical query: the stored rows decoded again, those with             *)
(* start <= timestamp <= end, ascending by timestamp (rows of one          *)
(* timestamp keep their order).                                            *)
(***************************************************************************)
RECURSIVE InsertByTime(_, _)
InsertByTime(sorted, p) ==
    IF sorted = <<>> THEN <<p>>
    ELSE IF TimeLe(sorted[Len(sorted)].Time, p.Time) THEN Append(sorted, p)
    ELSE Append(InsertByTime(SubSeq(sorted, 1, Len(sorted) - 1), p),
                sorted[Len(sorted)])

RECURSIVE SortByTime(_)
SortByTime(points) ==
    IF points = <<>> THEN <<>>
    ELSE InsertByTime(SortByTime(SubSeq(points, 1, Len(points) - 1)),
                      points[Len(points)])

InRange(points, start, end) ==
    LET Within(p) == TimeLe(start, p.Time) /\ TimeLe(p.Time, end)
    IN  SelectSeq(points, Within)

History(self, store, symbol, start, end) ==
    LET loaded == LoadSource(self, store, [Symbol |-> symbol], start, FALSE)
    IN  IF ~loaded.ok THEN [ok |-> FALSE, err |-> "QueryError"]
        ELSE [ok |-> TRUE, rows |-> SortByTime(InRange(loaded.points, start, end))]

(***************************************************************************)
(* OnEndOfAlgorithm (lines 44-67).  customSecurity is what line 48 reads;  *)
(* hist is what the History call of line 53 returns.  Line 50 builds an    *)
(* exception and does not raise it.                                        *)
(***************************************************************************)
NotFetchedMessage == "Custom data was not fetched"
SecurityMessage ==
    "Expected the custom security to be added to the algorithm securities and to have a price that is not zero"
CountMessage == "History request returned more or less data than expected"
DifferentMessage == "History request returned different data than expected"

\* Lines 60-66 at index i.
RowDiffers(row, received) ==
    \/ row.Symbol # received.Symbol
    \/ row.Time # received.Time
    \/ FloatNe(row.Value, received.Value)
    \/ FloatNe(row.Open, received.Open)
    \/ FloatNe(row.High, received.High)
    \/ FloatNe(row.Low, received.Low)
    \/ FloatNe(row.Close, received.Close)

\* CompareHistory with the loop of lines 58-67 left out.
CompareHistoryCountOnly(self, rows) ==
    IF Len(rows) # Len(self.receivedData) THEN CountMessage ELSE ""

\* Lines 55-67: the count, then every row.
CompareHistory(self, rows) ==
    IF Len(rows) # Len(self.receivedData) THEN CountMessage
    ELSE IF \E i \in 1..Len(self.receivedData) :
                RowDiffers(rows[i], self.receivedData[i])
    THEN DifferentMessage
    ELSE ""

\* OnEndOfAlgorithm without the check of lines 45-46.
OnEndOfAlgorithmNoFetchCheck(self, security, hist) ==
    IF ~hist.ok
    THEN [error |-> hist.err, customSecurity |-> <<security>>,
          history |-> <<>>, receivedData |-> self.receivedData]
    ELSE [error |-> CompareHistory(self, hist.rows),
          customSecurity |-> <<security>>, history |-> <<hist.rows>>,
          receivedData |-> self.receivedData]

\* The result: the error the call ends with ("" for none), what it read
\* at line 48 and at line 53, and self.receivedData as the call leaves it.
OnEndOfAlgorithm(self, security, hist) ==
    IF self.receivedData = <<>>
    THEN [error |-> NotFetchedMessage, customSecurity |-> <<>>, history |-> <<>>,
          receivedData |-> self.receivedData]
    ELSE
    LET \* Lines 49-50: the exception is built and dropped.
        built == IF security.IsNone \/ security.Price = Zero
                 THEN SecurityMessage ELSE ""
    IN  IF ~hist.ok
        THEN [error |-> hist.err, customSecurity |-> <<security>>,
              history |-> <<>>, receivedData |-> self.receivedData]
        ELSE [error |-> CompareHistory(self, hist.rows),
              customSecurity |-> <<security>>, history |-> <<hist.rows>>,
              receivedData |-> self.receivedData]

(***************************************************************************)
(* The run.                                                                *)
(***************************************************************************)
\* What self.Securities[self.customSymbol] may be at the end of the run.
\* The securities are kept by the engine's bookkeeping, outside this core.
Securities ==
    {[IsNone |-> TRUE, Price |-> Zero],
     [IsNone |-> FALSE, Price |-> Zero],
     [IsNone |-> FALSE, Price |-> [m |-> 58422, e |-> 1]]}

Put(key) == [op |-> "put", key |-> key]
Read(key) == [op |-> "get", key |-> key]

\* Idle -> Subscribed: resolve the source, open the raw dataset and decode
\* it whole into the ordered sequence of its points (rows of one timestamp
\* keep their stored order).  A store or decode error aborts the load: the
\* feed stays Idle with the error and holds no point.
FeedOpen(self, store, symbol, date, isLive) ==
    LET loaded == LoadSource(self, store, [Symbol |-> symbol], date, isLive)
    IN  IF loaded.ok
        THEN [state |-> "Subscribed", error |-> "",
              buffer |-> SortByTime(loaded.points)]
        ELSE [state |-> "Idle", error |-> loaded.err, buffer |-> <<>>]

TypeOK ==
    /\ pc \in {"new", "running", "done", "failed"}
    /\ CustomData \in Datasets
    /\ CustomDataKey \in StoreKeys
    /\ feedState \in {"Idle", "Subscribed", "Exhausted"}
    /\ cursor \in 1..(Len(buffer) + 1)
    /\ Len(clock) <= 1 /\ Len(history) <= 1 /\ Len(customSecurity) <= 1

\* The state before Initialize, with the class attribute CustomData one of
\* the given datasets.
InitWith(datasets) ==
    /\ pc = "new"
    /\ CustomData \in datasets
    /\ CustomDataKey = ""
    /\ customSymbol = ""
    /\ receivedData = <<>>
    /\ objectStore = [k \in StoreKeys |-> <<>>]
    /\ storeLog = <<>>
    /\ sourceLog = {}
    /\ feedState = "Idle"
    /\ feedError = ""
    /\ buffer = <<>>
    /\ cursor = 1
    /\ lastEmitted = <<>>
    /\ emitted = <<>>
    /\ clock = <<>>
    /\ customSecurity = <<>>
    /\ history = <<>>
    /\ error = ""
    /\ readerConfig = [Symbol |-> ""]
    /\ readerLine = <<>>
    /\ readerResult = <<>>
    /\ queries = <<>>
    /\ readerLoad = <<>>

Init == InitWith(Datasets)

\* Initialize (lines 21-34).  AddData of line 28 creates the subscription;
\* the feed opens the source either then (eager) or when the run starts
\* (Subscribe); SaveDataToObjectStore of line 32 writes the dataset.
Initialize ==
    /\ pc = "new"
    /\ \E eager \in BOOLEAN, isLive \in BOOLEAN, date \in RequestDates :
        LET key == GetCustomDataKey
            self == [CustomDataKey |-> key]
            opened == FeedOpen(self, objectStore, ExampleSymbol, date, isLive)
            source == GetSource(self, [Symbol |-> ExampleSymbol], date, isLive)
        IN  /\ CustomDataKey' = key
            /\ customSymbol' = ExampleSymbol
            /\ feedState' = IF eager THEN opened.state ELSE feedState
            /\ feedError' = IF eager THEN opened.error ELSE feedError
            /\ buffer' = IF eager THEN opened.buffer ELSE buffer
            /\ sourceLog' = IF eager
                            THEN sourceLog \cup
                                 {[kind |-> "subscription", source |-> source]}
                            ELSE sourceLog
            /\ objectStore' = ObjectStoreSave(objectStore, GetCustomDataKey, CustomData)
            /\ storeLog' = (IF eager THEN Append(storeLog, Read(source.Source))
                            ELSE storeLog) \o <<Put(GetCustomDataKey)>>
    /\ receivedData' = <<>>
    /\ pc' = "running"
    /\ UNCHANGED <<CustomData, cursor, lastEmitted, emitted, clock, customSecurity,
                   history, error, readerConfig, readerLine, readerResult, queries, readerLoad>>

\* The feed opens the source as the run starts, if it has not yet.
Subscribe ==
    /\ pc = "running"
    /\ feedState = "Idle" /\ feedError = "" /\ clock = <<>>
    /\ \E isLive \in BOOLEAN, date \in RequestDates :
        LET self == [CustomDataKey |-> CustomDataKey]
            opened == FeedOpen(self, objectStore, customSymbol, date, isLive)
            source == GetSource(self, [Symbol |-> customSymbol], date, isLive)
        IN  /\ feedState' = opened.state
            /\ feedError' = opened.error
            /\ buffer' = opened.buffer
            /\ sourceLog' = sourceLog \cup
                            {[kind |-> "subscription", source |-> source]}
            /\ storeLog' = Append(storeLog, Read(source.Source))
    /\ cursor' = 1
    /\ UNCHANGED <<pc, CustomData, CustomDataKey, customSymbol, receivedData,
                   objectStore, lastEmitted, emitted, clock, customSecurity,
                   history, error, readerConfig, readerLine, readerResult, queries, readerLoad>>

\* One tick of the clock at t: the feed yields the points that are due and
\* each reaches OnData in a slice of its own; a tick that yields nothing
\* calls OnData with a slice that does not hold the custom symbol.
Tick(t) ==
    /\ pc = "running"
    /\ ~(feedState = "Idle" /\ feedError = "")
    /\ IF clock = <<>> THEN TRUE ELSE TimeLe(clock[1], t)
    /\ LET f == FeedTick(feedState, buffer, cursor, lastEmitted, t)
           d == IF f.out = <<>>
                THEN OnData([customSymbol |-> customSymbol,
                             receivedData |-> receivedData], {})
                ELSE Dispatch(customSymbol, receivedData, buffer, f.out, 1)
       IN  /\ feedState' = f.state
           /\ cursor' = f.cursor
           /\ lastEmitted' = f.last
           /\ emitted' = emitted \o f.out
           /\ receivedData' = d.receivedData
           /\ error' = d.error
           /\ pc' = IF d.error # "" THEN "failed" ELSE pc
    /\ clock' = <<t>>
    /\ UNCHANGED <<CustomData, CustomDataKey, customSymbol, objectStore, storeLog,
                   sourceLog, feedError, buffer, customSecurity, history,
                   readerConfig, readerLine, readerResult, queries, readerLoad>>

\* The run ends once the clock has reached EndDate: OnEndOfAlgorithm.
EndOfAlgorithm ==
    /\ pc = "running"
    /\ clock = <<EndDate>>
    /\ \E security \in Securities :
        LET self == [CustomDataKey |-> CustomDataKey,
                     receivedData |-> receivedData]
            hist == History(self, objectStore, customSymbol, StartDate, EndDate)
            r == OnEndOfAlgorithm(self, security, hist)
            source == GetSource(self, [Symbol |-> customSymbol], StartDate, FALSE)
            asked == receivedData # <<>>
        IN  /\ error' = r.error
            /\ customSecurity' = r.customSecurity
            /\ history' = r.history
            /\ receivedData' = r.receivedData
            /\ sourceLog' = IF asked
                            THEN sourceLog \cup {[kind |-> "history", source |-> source]}
                            ELSE sourceLog
            /\ storeLog' = IF asked THEN Append(storeLog, Read(source.Source))
                           ELSE storeLog
    /\ pc' = "done"
    /\ UNCHANGED <<CustomData, CustomDataKey, customSymbol,
                   objectStore, feedState, feedError, buffer, cursor, lastEmitted,
                   emitted, clock, readerConfig, readerLine, readerResult, queries, readerLoad>>

Next ==
    \/ Initialize
    \/ Subscribe
    \/ \E t \in TickTimes : Tick(t)
    \/ EndOfAlgorithm

Spec == Init /\ [][Next]_vars

\* The run with a clock that reaches the end date: as long as the run goes
\* on, the tick at EndDate comes.  The datasets are those of fewer than
\* MaxRows rows.
InitLive == InitWith(UNION {[1..n -> Lines] : n \in 0..(MaxRows - 1)})

SpecLive == InitLive /\ [][Next]_vars /\ WF_vars(Tick(EndDate))

(***************************************************************************)
(* The Historical Query on its own: while the run goes on, a query for one *)
(* of a few ranges is made, at most MaxQueries times, and its result kept. *)
(***************************************************************************)
\* How many rows the datasets that are queried have at most.
MaxQueryRows == 2

\* The ranges asked for: the whole run, and 22:00 of the first day alone
\* (the second sample row lies on both of its bounds, the first before it).
QueryRanges ==
    {<<StartDate, EndDate>>,
     <<DateTime(2017, 8, 18, 22, 0, 0), DateTime(2017, 8, 18, 22, 0, 0)>>}

\* The lines of the datasets that are queried: rows in and out of order,
\* rows of one timestamp, a row with a zero close and a row after the end.
QueryLines == {Row1, Row2, RowSame, RowZero, RowLate}

\* How many queries are made on their own in one run at most.
MaxQueries == 1

\* A query for one of the ranges: the source is resolved as for a history
\* request, the store is read and the stored rows are decoded again.
\* queries keeps the query and its result.
HistoricalQuery ==
    /\ pc = "running"
    /\ Len(queries) < MaxQueries
    /\ \E range \in QueryRanges :
        LET self == [CustomDataKey |-> CustomDataKey]
            source == GetSource(self, [Symbol |-> customSymbol], range[1], FALSE)
            result == History(self, objectStore, customSymbol, range[1], range[2])
        IN  /\ queries' = Append(queries,
                                 [start |-> range[1], end |-> range[2],
                                  result |-> result])
            /\ sourceLog' = sourceLog \cup {[kind |-> "history", source |-> source]}
            /\ storeLog' = Append(storeLog, Read(source.Source))
    /\ UNCHANGED <<pc, CustomData, CustomDataKey, customSymbol, receivedData,
                   objectStore, feedState, feedError, buffer, cursor,
                   lastEmitted, emitted, clock, customSecurity, history, error,
                   readerConfig, readerLine, readerResult, readerLoad>>

InitQuery == InitWith(UNION {[1..n -> QueryLines] : n \in 0..MaxQueryRows})

NextQuery ==
    \/ Next
    \/ HistoricalQuery

SpecQuery == InitQuery /\ [][NextQuery]_vars

(***************************************************************************)
(* Reader on its own: a line of 1..MaxFields fields, built from a choice   *)
(* of texts for fields 0..4, is decoded once.                              *)
(***************************************************************************)
TimestampTexts == {TsRow1, TsLoose, TsBadMonth, TsBadDay, TsNoTime, TsLast}
OpenTexts == {N5749_5, NEmpty}
LowTexts == {N5749_5, NNegZero}
CloseTexts == {N5842_2, NZero, NBad, NSpaced, NNan}

\* Field i (from 1) of the line built from ts, o, l, c: the high, the
\* volume and the last column are those of the first sample row.
FieldText(i, ts, o, l, c) ==
    CASE i = 1 -> ts
      [] i = 2 -> o
      [] i = 3 -> N5852_95
      [] i = 4 -> l
      [] i = 5 -> c
      [] i = 6 -> N214402430
      [] i = 7 -> N8753_33
      [] OTHER -> NOne

ReaderLines ==
    {Join([i \in 1..n |-> FieldText(i, ts, o, l, c)]) :
        n \in 1..MaxFields, ts \in TimestampTexts, o \in OpenTexts,
        l \in LowTexts, c \in CloseTexts}

InitReader ==
    /\ pc = "new"
    /\ CustomData = <<>>
    /\ CustomDataKey = ""
    /\ customSymbol = ""
    /\ receivedData = <<>>
    /\ objectStore = [k \in StoreKeys |-> <<>>]
    /\ storeLog = <<>>
    /\ sourceLog = {}
    /\ feedState = "Idle"
    /\ feedError = ""
    /\ buffer = <<>>
    /\ cursor = 1
    /\ lastEmitted = <<>>
    /\ emitted = <<>>
    /\ clock = <<>>
    /\ customSecurity = <<>>
    /\ history = <<>>
    /\ error = ""
    /\ readerConfig \in {[Symbol |-> ExampleSymbol], [Symbol |-> "Other"]}
    /\ readerLine \in ReaderLines
    /\ readerResult = <<>>
    /\ queries = <<>>
    /\ readerLoad = <<>>

ReadLine ==
    /\ readerResult = <<>>
    /\ \E isLive \in BOOLEAN, date \in RequestDates :
        readerResult' = <<Reader(readerConfig, readerLine, date, isLive)>>
    /\ UNCHANGED <<pc, CustomData, CustomDataKey, customSymbol, receivedData,
                   objectStore, storeLog, sourceLog, feedState, feedError, buffer,
                   cursor, lastEmitted, emitted, clock, customSecurity, history,
                   error, readerConfig, readerLine, queries, readerLoad>>

\* The dataset a line is loaded in: between the two sample rows.
Around(line) == <<Row1, line, Row2>>

\* The load of the dataset that holds readerLine, every row through Reader.
LoadLines ==
    /\ readerLoad = <<>>
    /\ \E isLive \in BOOLEAN, date \in RequestDates :
        readerLoad' = <<DecodeAll(readerConfig, Around(readerLine), date, isLive)>>
    /\ UNCHANGED <<pc, CustomData, CustomDataKey, customSymbol, receivedData,
                   objectStore, storeLog, sourceLog, feedState, feedError, buffer,
                   cursor, lastEmitted, emitted, clock, customSecurity, history,
                   error, readerConfig, readerLine, readerResult, queries>>

NextReader ==
    \/ ReadLine
    \/ LoadLines

SpecReader == InitReader /\ [][NextReader]_vars

(***************************************************************************)
(* OnEndOfAlgorithm on its own: the call with a received list of up to     *)
(* MaxCompared points and, for the History call of line 53, any answer of  *)
(* up to MaxCompared rows.                                                 *)
(***************************************************************************)
MaxCompared == 2

\* The points of the two sample rows, as Reader decodes them.
Point1 == Reader([Symbol |-> ExampleSymbol], Row1, StartDate, FALSE).point
Point2 == Reader([Symbol |-> ExampleSymbol], Row2, StartDate, FALSE).point

ReceivedPoints == {Point1, Point2}

\* The rows an answer is made of: the two points, and the first with one
\* of its seven fields changed.
AnswerPoints ==
    {Point1, Point2,
     [Point1 EXCEPT !.Symbol = "Other"],
     [Point1 EXCEPT !.Time = Point2.Time],
     [Point1 EXCEPT !.Value = Point2.Value],
     [Point1 EXCEPT !.Open = Point2.Open],
     [Point1 EXCEPT !.High = Point2.High],
     [Point1 EXCEPT !.Low = Point2.Low],
     [Point1 EXCEPT !.Close = Point2.Close]}

ReceivedLists == UNION {[1..n -> ReceivedPoints] : n \in 0..MaxCompared}

Answers ==
    {[ok |-> FALSE, err |-> "QueryError"]}
        \cup {[ok |-> TRUE, rows |-> rows] :
                 rows \in UNION {[1..n -> AnswerPoints] : n \in 0..MaxCompared}}

\* The state OnEndOfAlgorithm is called in: the two sample rows saved by
\* Initialize, the feed run across them up to EndDate, and the received
\* list any of ReceivedLists.
InitCompare ==
    /\ pc = "running"
    /\ CustomData = <<Row1, Row2>>
    /\ CustomDataKey = GetCustomDataKey
    /\ customSymbol = ExampleSymbol
    /\ receivedData \in ReceivedLists
    /\ objectStore = ObjectStoreSave([k \in StoreKeys |-> <<>>],
                                     GetCustomDataKey, <<Row1, Row2>>)
    /\ storeLog = <<Put(GetCustomDataKey), Read(GetCustomDataKey)>>
    /\ sourceLog = {[kind |-> "subscription",
                     source |-> GetSource([CustomDataKey |-> GetCustomDataKey],
                                          [Symbol |-> ExampleSymbol],
                                          StartDate, FALSE)]}
    /\ feedState = "Exhausted"
    /\ feedError = ""
    /\ buffer = <<Point1, Point2>>
    /\ cursor = 3
    /\ lastEmitted = <<Point2.Time>>
    /\ emitted = <<1, 2>>
    /\ clock = <<EndDate>>
    /\ customSecurity = <<>>
    /\ history = <<>>
    /\ error = ""
    /\ readerConfig = [Symbol |-> ""]
    /\ readerLine = <<>>
    /\ readerResult = <<>>
    /\ queries = <<>>
    /\ readerLoad = <<>>

\* OnEndOfAlgorithm, with the security of line 48 and the answer to the
\* History call of line 53 as inputs.  The History call is made when lines
\* 45-46 have not raised: it resolves the source and reads the store.
Compare ==
    /\ pc = "running"
    /\ clock = <<EndDate>>
    /\ \E security \in Securities, hist \in Answers :
        LET self == [CustomDataKey |-> CustomDataKey,
                     receivedData |-> receivedData]
            r == OnEndOfAlgorithm(self, security, hist)
            source == GetSource(self, [Symbol |-> customSymbol], StartDate, FALSE)
            asked == receivedData # <<>>
        IN  /\ error' = r.error
            /\ customSecurity' = r.customSecurity
            /\ history' = r.history
            /\ receivedData' = r.receivedData
            /\ sourceLog' = IF asked
                            THEN sourceLog \cup {[kind |-> "history", source |-> source]}
                            ELSE sourceLog
            /\ storeLog' = IF asked THEN Append(storeLog, Read(source.Source))
                           ELSE storeLog
    /\ pc' = "done"
    /\ UNCHANGED <<CustomData, CustomDataKey, customSymbol, objectStore,
                   feedState, feedError, buffer, cursor, lastEmitted,
                   emitted, clock, readerConfig, readerLine, readerResult,
                   queries, readerLoad>>

NextCompare == Compare

SpecCompare == InitCompare /\ [][NextCompare]_vars

(***************************************************************************)
(* Properties.                                                             *)
(***************************************************************************)
\* The points the feed has emitted, in the order it emitted them.
EmittedPoints == [i \in 1..Len(emitted) |-> buffer[emitted[i]]]

\* The feed has loaded the dataset: every row decoded.
Loaded == feedState # "Idle"

\* The effective timestamps of the buffered points strictly increase.
StrictlyIncreasing ==
    \A i \in 1..(Len(buffer) - 1) : TimeLt(buffer[i].Time, buffer[i + 1].Time)

\* The rows the Historical Query returns for [StartDate, EndDate] now.
HistoryRows ==
    History([CustomDataKey |-> CustomDataKey], objectStore, customSymbol,
            StartDate, EndDate).rows

\* The feed has been run tick by tick up to EndDate.
RunAcross == Loaded /\ clock = <<EndDate>>

\* C1: once the feed has been run tick by tick across [StartDate, EndDate],
\* what it emitted is, element for element and field for field, what the
\* Historical Query returns for [StartDate, EndDate].
C1_FeedEqualsHistory == RunAcross => HistoryRows = EmittedPoints

\* Where the two differ: only on a dataset with a row earlier than StartDate,
\* which the feed yields at its first tick and the query leaves out.
DifferOnlyBeforeStart ==
    (RunAcross /\ \A i \in 1..Len(buffer) : TimeLe(StartDate, buffer[i].Time))
        => HistoryRows = EmittedPoints

\* C2: with at least one point received, OnEndOfAlgorithm ends without an
\* error exactly when the history rows are the received list: the same
\* count and, at every index, the same seven fields.
C2_RaisesIffDifferent ==
    (pc = "done" /\ receivedData # <<>>)
        => ((error = "") <=>
            (/\ history # <<>>
             /\ Len(history[1]) = Len(receivedData)
             /\ \A i \in 1..Len(receivedData) : history[1][i] = receivedData[i]))

C2_Witness ==
    /\ pc = "done"
    /\ error = DifferentMessage
    /\ Len(history[1]) = Len(receivedData)

HasZero(points) == \E i \in 1..Len(points) : points[i].Value = Zero

\* C3: no point with value 0 is delivered by either path: the received list
\* holds none and a zero point the feed yields ends the run with OnData's
\* error; and no answer of the Historical Query, to a query made on its own
\* or to the History call of line 53, holds one.
C3_NoZeroDelivered ==
    /\ ~HasZero(receivedData)
    /\ HasZero(EmittedPoints) => (pc = "failed" /\ error = ZeroPriceMessage)
    /\ \A k \in 1..Len(queries) :
          queries[k].result.ok => ~HasZero(queries[k].result.rows)
    /\ history # <<>> => ~HasZero(history[1])

\* The part of it that holds: the feed path, and the History call of line
\* 53, which a run reaches only when OnData has raised on no point.
NoZeroThroughOnData ==
    /\ ~HasZero(receivedData)
    /\ HasZero(EmittedPoints) => (pc = "failed" /\ error = ZeroPriceMessage)
    /\ history # <<>> => ~HasZero(history[1])

\* C4: the feed's emissions are in time order and no buffered point is
\* emitted twice; the points OnData received are in time order too.
C4_OrderedNoDuplicate ==
    /\ \A i, j \in 1..Len(emitted) :
          i < j => (/\ emitted[i] # emitted[j]
                    /\ TimeLe(buffer[emitted[i]].Time, buffer[emitted[j]].Time))
    /\ \A i, j \in 1..Len(receivedData) :
          i < j => TimeLe(receivedData[i].Time, receivedData[j].Time)

C4_Witness ==
    /\ Len(emitted) = 2
    /\ Len(receivedData) = 2
    /\ ~StrictlyIncreasing

\* How many times buffer position i has been emitted.
TimesEmitted(i) == Cardinality({k \in 1..Len(emitted) : emitted[k] = i})

\* C5: after the tick at t, every buffered point whose timestamp is <= t
\* has been emitted exactly once, rows that share a timestamp included.
C5_NoPointLost ==
    (Loaded /\ clock # <<>>)
        => \A i \in 1..Len(buffer) :
              TimeLe(buffer[i].Time, clock[1]) => TimesEmitted(i) = 1

C5_Witness ==
    /\ Loaded /\ ~StrictlyIncreasing
    /\ Len(buffer) = 3
    /\ buffer[1].Time = buffer[2].Time
    /\ clock = <<DateTime(2017, 8, 18, 21, 0, 0)>>
    /\ emitted = <<1, 2>>

\* C6: when line 48 finds the custom security missing or its price zero,
\* OnEndOfAlgorithm ends with the error of line 50.
C6_SecurityChecked ==
    (/\ pc = "done"
     /\ customSecurity # <<>>
     /\ (customSecurity[1].IsNone \/ customSecurity[1].Price = Zero))
        => error = SecurityMessage

FieldCount == Len(Split(readerLine))

\* C7 (as stated): a line of fewer than 7 fields makes Reader raise.
C7_FewerThanSeven ==
    (readerResult # <<>> /\ FieldCount < 7) => ~readerResult[1].ok

\* C7 (amended): a line of fewer than 5 fields makes Reader raise (the
\* IndexError of data[4] when field 0 is a timestamp) and gives no point.
C7_FewerThanFive ==
    (readerResult # <<>> /\ FieldCount < 5)
        => /\ ~readerResult[1].ok
           /\ readerResult[1].err \in {"IndexError", "ValueError", "OverflowError"}
           /\ (/\ strptime(Split(readerLine)[1]).ok
               /\ AddHours(strptime(Split(readerLine)[1]).time, ShiftHours).ok)
                 => readerResult[1].err = "IndexError"

C7_Witness ==
    /\ readerResult # <<>>
    /\ FieldCount = 4
    /\ ~readerResult[1].ok
    /\ readerResult[1].err = "IndexError"

\* C8: every read of a key of the object store comes after a write of it.
C8_PutBeforeGet ==
    \A i \in 1..Len(storeLog) :
        storeLog[i].op = "get"
            => \E j \in 1..(i - 1) : storeLog[j] = Put(storeLog[i].key)

\* C9: every GetSource result, for the subscription and for the history
\* request, is the key "CustomData/ExampleCustomData" with the object-store
\* transport and the Csv format, and the dataset is saved under that key.
C9_SameSource ==
    /\ \A r \in sourceLog :
          r.source = [Source |-> "CustomData/ExampleCustomData",
                      TransportMedium |-> "ObjectStore",
                      Format |-> "Csv"]
    /\ \A r \in sourceLog : \A i \in 1..Len(storeLog) :
          storeLog[i].op = "put" => storeLog[i].key = r.source.Source

C9_Witness ==
    /\ \E r \in sourceLog : r.kind = "subscription"
    /\ \E r \in sourceLog : r.kind = "history"
    /\ \E i \in 1..Len(storeLog) : storeLog[i].op = "put"

\* Seconds from moment a to moment b.
SecondsBetween(a, b) == (b.day - a.day) * SecondsPerDay + (b.sec - a.sec)

\* C10: a decoded point has the symbol handed in, the timestamp of field 0
\* moved forward by exactly 20 hours, open, high and low of fields 1, 2, 3
\* and value and close both of field 4; the first sample row gives
\* 2017-08-18 21:00:00, 5749.5, 5852.95, 5749.5 and 5842.2.
C10_DecodedFields ==
    (readerResult # <<>> /\ readerResult[1].ok)
        => LET p == readerResult[1].point
               data == Split(readerLine)
           IN  /\ p.Symbol = readerConfig.Symbol
               /\ SecondsBetween(strptime(data[1]).time, p.Time) = 20 * 3600
               /\ p.Open = float(data[2]).value
               /\ p.High = float(data[3]).value
               /\ p.Low = float(data[4]).value
               /\ p.Close = float(data[5]).value
               /\ p.Value = p.Close
               /\ readerLine = Row1
                    => /\ p.Time = DateTime(2017, 8, 18, 21, 0, 0)
                       /\ p.Open = [m |-> 57495, e |-> 1]
                       /\ p.High = [m |-> 585295, e |-> 2]
                       /\ p.Low = [m |-> 57495, e |-> 1]
                       /\ p.Close = [m |-> 58422, e |-> 1]
                       /\ p.Value = [m |-> 58422, e |-> 1]

C10_Witness ==
    /\ readerResult # <<>>
    /\ readerResult[1].ok
    /\ readerLine = Row1

\* The first operation on the object store was a read: the key had never
\* been written.
ReadBeforeWrite == storeLog # <<>> /\ storeLog[1].op = "get"

\* C11: a read of a key that was never written fails with NotFound and the
\* feed then holds, emits and delivers no point; a run that received no
\* point ends at OnEndOfAlgorithm with "Custom data was not fetched".
C11_MissingKeyNotFetched ==
    /\ ReadBeforeWrite => feedError = "NotFound"
    /\ feedError = "NotFound"
          => (buffer = <<>> /\ emitted = <<>> /\ receivedData = <<>>)
    /\ (pc = "done" /\ receivedData = <<>>)
          => (error = NotFetchedMessage /\ history = <<>>)

C11_Witness ==
    /\ pc = "done"
    /\ ReadBeforeWrite
    /\ feedError = "NotFound"
    /\ CustomData # <<>>
    /\ error = NotFetchedMessage

\* The effective timestamp of a stored line: field 0 read as a timestamp,
\* 20 hours later.
EffectiveTime(line) == AddHours(strptime(Split(line)[1]).time, ShiftHours).time

\* The points the stored lines stand for, each with its effective timestamp.
ExpectedPoints ==
    [i \in 1..Len(CustomData) |->
        [Reader([Symbol |-> customSymbol], CustomData[i], StartDate, FALSE).point
            EXCEPT !.Time = EffectiveTime(CustomData[i])]]

\* The positions of the points whose timestamp lies in [start, end].
InClosedRange(points, start, end) ==
    {i \in 1..Len(points) :
        TimeLe(start, points[i].Time) /\ TimeLe(points[i].Time, end)}

\* rows is ascending by timestamp and holds exactly the points at the
\* positions wanted, each as often as it is among them.
ExactlyAscending(rows, points, wanted) ==
    /\ Len(rows) = Cardinality(wanted)
    /\ \A i, j \in 1..Len(rows) : i < j => TimeLe(rows[i].Time, rows[j].Time)
    /\ \A i \in wanted :
          Cardinality({j \in 1..Len(rows) : rows[j] = points[i]})
            = Cardinality({j \in wanted : points[j] = points[i]})

QueryExact(q, points) ==
    /\ q.result.ok
    /\ ExactlyAscending(q.result.rows, points,
                        InClosedRange(points, q.start, q.end))
    /\ InClosedRange(points, q.start, q.end) = {} => q.result.rows = <<>>

\* C12: a query for [start, end] succeeds and returns, ascending by
\* timestamp, exactly the points of the stored lines whose effective
\* timestamp t has start <= t <= end, each as often as it is stored; with
\* no such line it returns the empty sequence.
C12_QueryClosedRange ==
    \A k \in 1..Len(queries) : QueryExact(queries[k], ExpectedPoints)

C12_Witness ==
    /\ CustomData = <<Row2, Row1>>
    /\ Len(queries) = 1
    /\ queries[1].start = DateTime(2017, 8, 18, 22, 0, 0)
    /\ queries[1].end = DateTime(2017, 8, 18, 22, 0, 0)
    /\ queries[1].result.rows = <<ExpectedPoints[1]>>

\* Every buffered point is due by the end of the run.
AllDueByEnd == \A i \in 1..Len(buffer) : TimeLe(buffer[i].Time, EndDate)

\* From Subscribed, a step ends in Exhausted exactly when it leaves the
\* cursor past the last buffered point; Exhausted is entered from
\* Subscribed only.
ExhaustsWhenPast ==
    /\ feedState = "Subscribed"
          => (feedState' = "Exhausted" <=> cursor' > Len(buffer'))
    /\ feedState = "Idle" => feedState' # "Exhausted"

\* From Exhausted, a step emits nothing, delivers nothing and leaves the
\* feed as it is.
ExhaustedAbsorbs ==
    feedState = "Exhausted"
        => /\ feedState' = "Exhausted"
           /\ UNCHANGED <<buffer, cursor, lastEmitted, emitted, receivedData>>

\* C14: the feed goes from Subscribed to Exhausted exactly when its cursor
\* passes the last buffered point; once Exhausted it stays so and later
\* ticks emit nothing; and a Subscribed feed whose points are all due by
\* the end of the run is Exhausted in the end, unless the run has failed
\* and its clock has stopped.
C14_ExhaustedAbsorbing ==
    /\ [][ExhaustsWhenPast /\ ExhaustedAbsorbs]_vars
    /\ (feedState = "Subscribed" /\ AllDueByEnd)
          ~> (feedState = "Exhausted" \/ pc = "failed")

C14_Witness ==
    /\ feedState = "Exhausted"
    /\ pc = "done"
    /\ Len(buffer) = 2
    /\ cursor = 3
    /\ Len(emitted) = 2
    /\ clock = <<EndDate>>

\* s is a timestamp written YYYY-MM-DD HH:MM:SS: four, two and two digits,
\* and two, two and two, each in its range.
TimestampPattern(s) ==
    /\ Len(s) = 19
    /\ \A i \in {1, 2, 3, 4, 6, 7, 9, 10, 12, 13, 15, 16, 18, 19} : s[i] \in Digit
    /\ s[5] = "-" /\ s[8] = "-" /\ s[11] = " " /\ s[14] = ":" /\ s[17] = ":"
    /\ NumVal(s, 1, 4) >= 1
    /\ NumVal(s, 6, 2) \in 1..12
    /\ NumVal(s, 9, 2) \in 1..DaysInMonth(NumVal(s, 1, 4), NumVal(s, 6, 2))
    /\ NumVal(s, 12, 2) < 24 /\ NumVal(s, 15, 2) < 60 /\ NumVal(s, 18, 2) < 60

\* s from i to last is digits with at most one '.', and a digit at least.
DecimalFrom(s, i, last) ==
    /\ DigitRun(s, i) + (IF At(s, i + DigitRun(s, i)) = "."
                         THEN DigitRun(s, i + DigitRun(s, i) + 1) ELSE 0) > 0
    /\ last = i + DigitRun(s, i) - 1
                + (IF At(s, i + DigitRun(s, i)) = "."
                   THEN 1 + DigitRun(s, i + DigitRun(s, i) + 1) ELSE 0)

\* s is a number in decimal writing, with or without a '-' and blanks
\* around it.
DecimalText(s) ==
    DecimalFrom(s, 1 + SpaceRun(s, 1)
                     + (IF At(s, 1 + SpaceRun(s, 1)) = "-" THEN 1 ELSE 0),
                Len(s) - TrailingSpaces(s, Len(s)))

\* The fields 1 to 4 that readerLine has.
NumberFields == {i \in 2..5 : i <= FieldCount}

\* What the line and the load of the dataset around it gave is an error
\* and no point.
NoPointFrom(result) == result # <<>> => (~result[1].ok /\ DOMAIN result[1] = {"ok", "err"})

\* C15 (as stated): a row whose field 0 is not a timestamp written
\* YYYY-MM-DD HH:MM:SS, or whose field 1, 2, 3 or 4 is not a number, makes
\* Reader raise and give no point, and aborts the load of its dataset.
C15_BadFieldRaises ==
    (\/ ~TimestampPattern(Split(readerLine)[1])
     \/ \E i \in NumberFields : ~DecimalText(Split(readerLine)[i]))
        => (NoPointFrom(readerResult) /\ NoPointFrom(readerLoad))

\* Field 0 is a timestamp that the 20 hours take past the last datetime.
ShiftOverflows ==
    /\ strptime(Split(readerLine)[1]).ok
    /\ ~AddHours(strptime(Split(readerLine)[1]).time, ShiftHours).ok

\* The error Reader ends a row it cannot decode with: line 85 comes first
\* (strptime, then the shift), then data[4] of line 86, then float.
ExpectedError ==
    IF ~strptime(Split(readerLine)[1]).ok THEN "ValueError"
    ELSE IF ShiftOverflows THEN "OverflowError"
    ELSE IF FieldCount < 5 THEN "IndexError"
    ELSE "ValueError"

\* C15 (amended): a row whose field 0 strptime does not take, or whose
\* field 1, 2, 3 or 4 float does not take, makes Reader raise and give no
\* point: the ValueError of strptime when field 0 is not taken; else the
\* OverflowError of the shift; else the IndexError of data[4] when the row
\* has fewer than five fields; else the ValueError of float.  The load of
\* its dataset ends with that same error and no point; a load that succeeds
\* holds every row, each as Reader decodes it.
C15_ParseFailureRaises ==
    /\ (\/ ~strptime(Split(readerLine)[1]).ok
         \/ \E i \in NumberFields : ~float(Split(readerLine)[i]).ok)
          => /\ NoPointFrom(readerResult) /\ NoPointFrom(readerLoad)
             /\ readerResult # <<>> => readerResult[1].err = ExpectedError
    /\ (readerResult # <<>> /\ readerLoad # <<>>)
          => IF readerResult[1].ok
             THEN /\ readerLoad[1].ok
                  /\ Len(readerLoad[1].points) = 3
                  /\ readerLoad[1].points[2] = readerResult[1].point
             ELSE readerLoad[1] = readerResult[1]

C15_Witness ==
    /\ readerResult # <<>> /\ readerLoad # <<>>
    /\ FieldCount = 7
    /\ strptime(Split(readerLine)[1]).ok
    /\ Split(readerLine)[2] = NEmpty
    /\ float(Split(readerLine)[5]).ok
    /\ readerResult[1] = ValueError
    /\ readerLoad[1] = ValueError

\* a is b, or b with elements taken off its end.
IsPrefix(a, b) == Len(a) <= Len(b) /\ a = SubSeq(b, 1, Len(a))

\* How many points lead the sequence before its first one of value 0.
RECURSIVE NonZeroRun(_, _)
NonZeroRun(points, i) ==
    IF i > Len(points) \/ points[i].Value = Zero THEN 0
    ELSE 1 + NonZeroRun(points, i + 1)

\* The points the feed handed to OnData before the first of value 0, at
\* which OnData raises and the run stops.
Accepted == SubSeq(EmittedPoints, 1, NonZeroRun(EmittedPoints, 1))

\* C16: the received list only grows at its end, by at most one point for
\* each point delivered; in every state it is, in delivery order, the
\* points delivered so far that OnData did not raise on, and none of them
\* has value 0.
C16_ReceivedAppendOnly ==
    /\ [][/\ IsPrefix(receivedData, receivedData')
          /\ Len(receivedData') - Len(receivedData) <= Len(emitted') - Len(emitted)]_vars
    /\ [](receivedData = Accepted /\ ~HasZero(receivedData))

C16_Witness ==
    /\ pc = "failed"
    /\ error = ZeroPriceMessage
    /\ Len(emitted) = 3
    /\ Len(receivedData) = 2

=============================================================================
